---- MODULE Spec2Model ----
(***************************************************************************)
(* Model of bno055_publisher.cpp: the process entry point (main), the      *)
(* MinimalPublisher node (constructor and timer_callback) and the parts of *)
(* their environment they depend on (rclcpp::ok, the sensor driver's read  *)
(* and reconnect outcomes, the outbound "imu" topic).                      *)
(*                                                                         *)
(* Three specifications share the state:                                   *)
(*   Spec      the whole process, from the entry of main to its return;    *)
(*   FairSpec  Spec with main's steps scheduled fairly;                    *)
(*   SpecNode  one MinimalPublisher attached to an executor that fires its *)
(*             wall timer while rclcpp::ok() holds.                        *)
(***************************************************************************)
EXTENDS Integers, Sequences, FiniteSets, TLC

\* ------------------------------------------------------------------ bounds
\* Longest address string argv[2] enumerated.
MaxLen == 3
\* Most iterations of the bootstrap loop of main explored.
MaxAttempts == 3
\* Most timer ticks explored.
MaxTicks == 3

\* ------------------------------------------------------- program constants
\* Width of unsigned long, the result type of std::stoul.
ULongBits == 64
\* std::numeric_limits<uint8_t>().max()
UINT8_MAX == 255
\* Base passed to std::stoul.
AddressBase == 16
\* Period of the wall timer, in milliseconds (10ms).
TimerPeriodMs == 10
\* std::this_thread::sleep_for(1s), in milliseconds.
SleepMs == 1000
\* Length of each covariance array of sensor_msgs::msg::Imu (std::array<double, 9>).
CovarianceSize == 9
\* Covariances, in units of 1e-8: 67.53e-06, 3.05e-06, 15.9e-03.
AccelCovarianceE8 == 6753
GyroCovarianceE8 == 305
QuatCovarianceE8 == 1590000
\* Exit status of "return -1" from main, as the host sees it ((-1) mod 256).
ReturnMinusOne == -1
ExitStatusModulus == 256
\* Exit status of a process ended by std::terminate (128 + SIGABRT).
AbortStatus == 134

\* An empty shared_ptr, the std::runtime_error a driver call throws.
NULL == [null |-> TRUE]
Fail == [what |-> "runtime_error"]
NoOverride == "no_override"

\* ------------------------------------------------------------ std::stoul
\* Characters argv[2] is drawn from: hexadecimal digits, the prefix letter,
\* a letter that is no hexadecimal digit, a sign and white space.
Alphabet == {"0", "1", "f", "x", "g", "-", " "}

HexDigits == {"0", "1", "f"}

HexVal(c) == CASE c = "0" -> 0 [] c = "1" -> 1 [] c = "f" -> 15

RECURSIVE Strings(_)
Strings(n) ==
    IF n = 0 THEN {<<>>}
    ELSE LET shorter == Strings(n - 1)
         IN  shorter \cup {Append(s, c) : s \in {t \in shorter : Len(t) = n - 1}, c \in Alphabet}

Drop(s, n) == SubSeq(s, n + 1, Len(s))

\* strtoul skips leading white space.
RECURSIVE SkipSpace(_)
SkipSpace(s) ==
    IF s # <<>> /\ s[1] = " " THEN SkipSpace(Drop(s, 1)) ELSE s

\* With base 16 an optional "0x" is skipped when a hexadecimal digit follows it.
SkipPrefix(s) ==
    IF Len(s) >= 3 /\ s[1] = "0" /\ s[2] = "x" /\ s[3] \in HexDigits
    THEN Drop(s, 2) ELSE s

\* The longest prefix of hexadecimal digits.
RECURSIVE DigitPrefix(_)
DigitPrefix(s) ==
    IF s # <<>> /\ s[1] \in HexDigits
    THEN <<s[1]>> \o DigitPrefix(Drop(s, 1)) ELSE <<>>

RECURSIVE DigitsValue(_, _)
DigitsValue(digits, acc) ==
    IF digits = <<>> THEN acc
    ELSE DigitsValue(Drop(digits, 1), acc * AddressBase + HexVal(digits[1]))

RECURSIVE StripZeros(_)
StripZeros(digits) ==
    IF digits # <<>> /\ digits[1] = "0" THEN StripZeros(Drop(digits, 1)) ELSE digits

\* A run of hexadecimal digits does not fit unsigned long exactly when it has
\* more than ULongBits / 4 significant digits.
OutOfRange(digits) == Len(StripZeros(digits)) * 4 > ULongBits

\* std::stoul(str, nullptr, 16): white space, an optional sign, an optional
\* "0x", then the longest run of hexadecimal digits; what follows the digits is
\* ignored. No digit: std::invalid_argument. A magnitude that does not fit
\* unsigned long: std::out_of_range. A minus sign negates in unsigned long: the
\* result is (2^ULongBits - mag) % 2^ULongBits, kept here as the pair (neg, mag)
\* because the value itself exceeds the integers of the model checker.
stoul(str) ==
    LET s1 == SkipSpace(str)
        neg == s1 # <<>> /\ s1[1] = "-"
        s2 == IF neg THEN Drop(s1, 1) ELSE s1
        digits == DigitPrefix(SkipPrefix(s2))
    IN  IF digits = <<>> THEN [status |-> "invalid_argument", neg |-> FALSE, mag |-> 0]
        ELSE IF OutOfRange(digits) THEN [status |-> "out_of_range", neg |-> FALSE, mag |-> 0]
        ELSE [status |-> "ok", neg |-> neg /\ DigitsValue(digits, 0) > 0,
              mag |-> DigitsValue(digits, 0)]

\* devAdressInput > std::numeric_limits<uint8_t>().max() on the unsigned long
\* that stoul returned: a negated non-zero magnitude below 2^ULongBits - 255 is
\* a value above 255.
ExceedsUint8(r) == IF r.neg THEN TRUE ELSE r.mag > UINT8_MAX

\* static_cast<uint8_t>(devAdressInput)
ToUint8(r) == r.mag % (UINT8_MAX + 1)

\* ------------------------------------------------------- sensor samples
\* Values the driver's three queries return (imu::BNO055::getAccelMsq,
\* getGyroRps, getQuaternion); a query that loses the link throws Fail.
Vec3Samples == {[x |-> 1, y |-> 2, z |-> 3], [x |-> 4, y |-> 5, z |-> 6]}
QuatSamples == {[w |-> 1, x |-> 0, y |-> 0, z |-> 0], [w |-> 0, x |-> 7, y |-> 8, z |-> 9]}

\* Values of the frame_id parameter the ROS arguments may carry.
FrameIdOverrides == {"base_link"}
\* argv[1] values.
DevDirectories == {"/dev/i2c-1"}
\* argc values: too few, exactly the two positional arguments, and more (among
\* them the "--ros-args -p frame_id:=..." triple that carries an override).
ArgcValues == {2, 3, 4, 6}

\* ------------------------------------------------------- MinimalPublisher
Indices == 0 .. (CovarianceSize - 1)

\* constexpr std::array accelCovariance / gyroCovariance / quatCovariance
accelCovariance == [k \in 0 .. 2 |-> AccelCovarianceE8]
gyroCovariance == [k \in 0 .. 2 |-> GyroCovarianceE8]
quatCovariance == [k \in 0 .. 2 |-> QuatCovarianceE8]

\* The loop of the constructor over one covariance array: the entries whose
\* index is a multiple of 3 take the constant of index i / 3, the others 0.
CovarianceInit(perAxis) ==
    [i \in Indices |-> IF i % 3 = 0 THEN perAxis[i \div 3] ELSE 0]

\* sensor_msgs::msg::Imu(): zero-initialised, the orientation the identity.
DefaultImu ==
    [stamp |-> 0, frame_id |-> "",
     orientation |-> [w |-> 1, x |-> 0, y |-> 0, z |-> 0],
     orientation_covariance |-> [i \in Indices |-> 0],
     angular_velocity |-> [x |-> 0, y |-> 0, z |-> 0],
     angular_velocity_covariance |-> [i \in Indices |-> 0],
     linear_acceleration |-> [x |-> 0, y |-> 0, z |-> 0],
     linear_acceleration_covariance |-> [i \in Indices |-> 0]]

\* Node::declare_parameter(name, default): the override when one was given,
\* the default otherwise.
declare_parameter(override, default) ==
    IF override = NoOverride THEN default ELSE override

\* Default member initialiser of frameId_.
DefaultFrameId == "imu_link"

\* The constructor, once imu_ has opened the device: the object it leaves.
\* id numbers the objects; src records, for each measurement field of the
\* message buffer, the tick whose read filled it (0: never written).
MinimalPublisher(id, dir, addr, override) ==
    [id |-> id,
     imu_ |-> [devDirectory |-> dir, devAddress |-> addr],
     frameId_ |-> declare_parameter(override, DefaultFrameId),
     publisher_ |-> "imu",
     timer_ |-> TimerPeriodMs,
     imuMsg_ |-> [DefaultImu EXCEPT
         !.angular_velocity_covariance = CovarianceInit(gyroCovariance),
         !.linear_acceleration_covariance = CovarianceInit(accelCovariance),
         !.orientation_covariance = CovarianceInit(quatCovariance)],
     src |-> [accel |-> 0, gyro |-> 0, quat |-> 0]]

\* StampHeader starting each callback from a default-constructed measurement.
StampHeader_ClearsSamples(n, now) ==
    [n EXCEPT !.imuMsg_.stamp = now, !.imuMsg_.frame_id = n.frameId_,
              !.imuMsg_.linear_acceleration = DefaultImu.linear_acceleration,
              !.imuMsg_.angular_velocity = DefaultImu.angular_velocity,
              !.imuMsg_.orientation = DefaultImu.orientation]

\* Lines 48-49 of timer_callback: the header of the buffer.
StampHeader(n, now) ==
    [n EXCEPT !.imuMsg_.stamp = now, !.imuMsg_.frame_id = n.frameId_]

\* ReadCalls with every query attempted, whatever the earlier ones did.
ReadCalls_AllAttempted(a, g, q) == <<"getAccelMsq", "getGyroRps", "getQuaternion">>

\* Lines 51-53: the three queries in order; the first that throws ends them.
ReadCalls(a, g, q) ==
    IF a = Fail THEN <<"getAccelMsq">>
    ELSE IF g = Fail THEN <<"getAccelMsq", "getGyroRps">>
    ELSE <<"getAccelMsq", "getGyroRps", "getQuaternion">>

ReadsSucceed(a, g, q) == a # Fail /\ g # Fail /\ q # Fail

\* AssembleMsg with the angular velocity filled from the acceleration read.
AssembleMsg_GyroFromAccel(n, tick, a, g, q) ==
    [n EXCEPT !.imuMsg_.linear_acceleration = [x |-> a.x, y |-> a.y, z |-> a.z],
              !.imuMsg_.angular_velocity = [x |-> a.x, y |-> a.y, z |-> a.z],
              !.imuMsg_.orientation = [w |-> q.w, x |-> q.x, y |-> q.y, z |-> q.z],
              !.src = [accel |-> tick, gyro |-> tick, quat |-> tick]]

\* AssembleMsg filling a freshly default-constructed message.
AssembleMsg_FreshMessage(n, tick, a, g, q) ==
    [n EXCEPT !.imuMsg_ = [DefaultImu EXCEPT
                  !.stamp = n.imuMsg_.stamp,
                  !.frame_id = n.imuMsg_.frame_id,
                  !.linear_acceleration = [x |-> a.x, y |-> a.y, z |-> a.z],
                  !.angular_velocity = [x |-> g.x, y |-> g.y, z |-> g.z],
                  !.orientation = [w |-> q.w, x |-> q.x, y |-> q.y, z |-> q.z]],
              !.src = [accel |-> tick, gyro |-> tick, quat |-> tick]]

\* Lines 55-66: the measurement fields of the buffer, from this tick's reads.
AssembleMsg(n, tick, a, g, q) ==
    [n EXCEPT !.imuMsg_.linear_acceleration = [x |-> a.x, y |-> a.y, z |-> a.z],
              !.imuMsg_.angular_velocity = [x |-> g.x, y |-> g.y, z |-> g.z],
              !.imuMsg_.orientation = [w |-> q.w, x |-> q.x, y |-> q.y, z |-> q.z],
              !.src = [accel |-> tick, gyro |-> tick, quat |-> tick]]

\* Line 71: what publisher_->publish(imuMsg_) puts on the topic (the message,
\* with the tick of the publish and the provenance of its fields).
Publish(n, tick) == <<[msg |-> n.imuMsg_, tick |-> tick, src |-> n.src]>>

\* OnConnectionLost retrying reconnect() once more after the cooldown.
OnConnectionLost_Retry(n, tick, r) ==
    [node |-> n, out |-> <<>>,
     calls |-> IF r THEN <<"reconnect">> ELSE <<"reconnect", "sleep_for", "reconnect">>,
     slept |-> IF r THEN 0 ELSE SleepMs]

\* OnConnectionLost publishing the buffer as it stands after the reconnect.
OnConnectionLost_PublishStale(n, tick, r) ==
    [node |-> n, out |-> Publish(n, tick),
     calls |-> IF r THEN <<"reconnect", "publish">>
               ELSE <<"reconnect", "sleep_for", "publish">>,
     slept |-> IF r THEN 0 ELSE SleepMs]

\* OnConnectionLost that only waits, without calling reconnect().
OnConnectionLost_NoReconnect(n, tick, r) ==
    [node |-> n, out |-> <<>>, calls |-> <<"sleep_for">>, slept |-> SleepMs]

\* OnConnectionLost waiting whatever reconnect() returned.
OnConnectionLost_AlwaysSleeps(n, tick, r) ==
    [node |-> n, out |-> <<>>, calls |-> <<"reconnect", "sleep_for">>, slept |-> SleepMs]

\* Lines 72-77: the handler of std::runtime_error.
OnConnectionLost(n, tick, r) ==
    [node |-> n, out |-> <<>>,
     calls |-> IF r THEN <<"reconnect">> ELSE <<"reconnect", "sleep_for">>,
     slept |-> IF r THEN 0 ELSE SleepMs]

\* OnSamplesRead without the publish call.
OnSamplesRead_Silent(n, tick, a, g, q) ==
    [node |-> AssembleMsg(n, tick, a, g, q), out |-> <<>>, calls |-> <<>>, slept |-> 0]

\* Lines 47-71: the try block when no query throws.
OnSamplesRead(n, tick, a, g, q) ==
    LET m == AssembleMsg(n, tick, a, g, q)
    IN  [node |-> m, out |-> Publish(m, tick), calls |-> <<"publish">>, slept |-> 0]

\* MinimalPublisher::timer_callback on node n at time now, with the outcomes
\* a, g, q of the three queries and r of reconnect(): the node it leaves, the
\* messages it publishes, the calls it makes and the time it sleeps.
timer_callback(n, tick, now, a, g, q, r) ==
    LET stamped == StampHeader(n, now)
        tail == IF ReadsSucceed(a, g, q)
                THEN OnSamplesRead(stamped, tick, a, g, q)
                ELSE OnConnectionLost(stamped, tick, r)
    IN  [tail EXCEPT !.calls = ReadCalls(a, g, q) \o tail.calls]

\* ------------------------------------------------------------------ state
VARIABLES
    pc,           \* where main stands ("executor" under SpecNode)
    argc,         \* main's argc
    argv1,        \* argv[1]
    argv2,        \* argv[2], a sequence of characters
    rosOverride,  \* the frame_id override rclcpp::init found, or NoOverride
    devDirectory, \* main's devDirectory
    devAddress,   \* main's devAddress
    ok,           \* rclcpp::ok()
    node,         \* main's shared_ptr node: NULL or the object it owns
    fresh,        \* the object make_shared returned, before it is assigned
    published,    \* the messages put on the "imu" topic, oldest first
    exitStatus,   \* <<>> while the process runs, then <<its exit status>>
    clock,        \* time, in milliseconds
    iterations,   \* bootstrap loop bodies entered
    opens,        \* imu_ open attempts (constructions begun)
    successes,    \* constructions that returned an object
    ticks,        \* timer_callback invocations
    calls,        \* the calls the latest timer_callback made, in order
    reads,        \* the outcomes the latest timer_callback was given
    spinEntered   \* rclcpp::spin has been called

vars == <<pc, argc, argv1, argv2, rosOverride, devDirectory, devAddress, ok, node,
          fresh, published, exitStatus, clock, iterations, opens, successes, ticks,
          calls, reads, spinEntered>>

argVars == <<argc, argv1, argv2, rosOverride>>
nodeVars == <<node, fresh, published, ticks, calls, reads>>
countVars == <<iterations, opens, successes>>

NotCalled == [called |-> FALSE]

\* The objects alive: the one main's node owns and the one just made.
LiveNodes == {n \in {node, fresh} : n # NULL}

\* ------------------------------------------------------------------- main
\* Status the host sees for "return -1".
ErrorStatus == ReturnMinusOne % ExitStatusModulus

\* Lines 91-111: the checks of argc and argv[2]. next is where main goes on,
\* status the exit status when it returns or is terminated here (<<>>: neither).
CheckArguments(count, str) ==
    IF count # 3 THEN [next |-> "done", status |-> <<ErrorStatus>>, address |-> 0]
    ELSE LET r == stoul(str)
         IN  IF r.status = "invalid_argument"
             THEN [next |-> "done", status |-> <<ErrorStatus>>, address |-> 0]
             ELSE IF r.status = "out_of_range"
             THEN [next |-> "done", status |-> <<AbortStatus>>, address |-> 0]
             ELSE IF ExceedsUint8(r)
             THEN [next |-> "done", status |-> <<ErrorStatus>>, address |-> 0]
             ELSE [next |-> "loop", status |-> <<>>, address |-> ToUint8(r)]

Init ==
    /\ pc = "main"
    /\ argc \in ArgcValues
    /\ argv1 \in DevDirectories
    /\ argv2 \in (IF argc >= 3 THEN Strings(MaxLen) ELSE {<<>>})
    /\ rosOverride \in (IF argc >= 6 THEN FrameIdOverrides \cup {NoOverride} ELSE {NoOverride})
    /\ devDirectory = ""
    /\ devAddress = 0
    /\ ok = TRUE
    /\ node = NULL
    /\ fresh = NULL
    /\ published = <<>>
    /\ exitStatus = <<>>
    /\ clock = 0
    /\ iterations = 0
    /\ opens = 0
    /\ successes = 0
    /\ ticks = 0
    /\ calls = <<>>
    /\ reads = NULL
    /\ spinEntered = FALSE

\* Lines 91-111.
ParseArgs ==
    /\ pc = "main"
    /\ LET c == CheckArguments(argc, argv2)
       IN  /\ pc' = c.next
           /\ exitStatus' = c.status
           /\ devAddress' = c.address
           /\ devDirectory' = IF c.next = "loop" THEN argv1 ELSE devDirectory
    /\ UNCHANGED <<argVars, ok, nodeVars, clock, countVars, spinEntered>>

\* Line 114, rclcpp::ok() true: the body of the loop is entered.
LoopEnter ==
    /\ pc = "loop"
    /\ ok
    /\ iterations < MaxAttempts
    /\ pc' = "construct"
    /\ iterations' = iterations + 1
    /\ UNCHANGED <<argVars, devDirectory, devAddress, ok, nodeVars, exitStatus, clock,
                   opens, successes, spinEntered>>

\* Line 114, rclcpp::ok() false: the loop ends.
LoopExit ==
    /\ pc = "loop"
    /\ ~ok
    /\ pc' = "after_loop"
    /\ UNCHANGED <<argVars, devDirectory, devAddress, ok, nodeVars, exitStatus, clock,
                   countVars, spinEntered>>

\* OnOpenError going straight back to the loop condition, without the delay.
OnOpenError_NoDelay == [next |-> "loop", status |-> <<>>]

\* Lines 118-120: the handler of the constructor's std::runtime_error.
OnOpenError == [next |-> "sleep", status |-> <<>>]

\* NodeAfterOpenError with the reference reset by the failed attempt.
NodeAfterOpenError_Reset(n) == NULL

\* Lines 115-120: main's node after a construction that threw: make_shared
\* threw before the assignment, so node holds what it held.
NodeAfterOpenError(n) == n

\* Line 116, std::make_shared<MinimalPublisher>(...): imu_ opens the device
\* or throws; the object exists before it is assigned to node.
Construct ==
    /\ pc = "construct"
    /\ opens' = opens + 1
    /\ \E opened \in BOOLEAN :
          IF opened
          THEN /\ fresh' = MinimalPublisher(successes + 1, devDirectory, devAddress,
                                            rosOverride)
               /\ successes' = successes + 1
               /\ pc' = "assign"
               /\ UNCHANGED <<exitStatus, node>>
          ELSE /\ pc' = OnOpenError.next
               /\ exitStatus' = OnOpenError.status
               /\ node' = NodeAfterOpenError(node)
               /\ UNCHANGED <<fresh, successes>>
    /\ UNCHANGED <<argVars, devDirectory, devAddress, ok, published, ticks, calls,
                   reads, clock, iterations, spinEntered>>

\* Assign keeping the object node already owns and dropping the new one.
Assign_KeepFirst ==
    /\ pc = "assign"
    /\ node' = IF node = NULL THEN fresh ELSE node
    /\ fresh' = NULL
    /\ pc' = "sleep"
    /\ UNCHANGED <<argVars, devDirectory, devAddress, ok, published, ticks, calls, reads,
                   exitStatus, clock, countVars, spinEntered>>

\* Line 116, the assignment: node takes the new object, the object it owned
\* until now is destroyed.
Assign ==
    /\ pc = "assign"
    /\ node' = fresh
    /\ fresh' = NULL
    /\ pc' = "sleep"
    /\ UNCHANGED <<argVars, devDirectory, devAddress, ok, published, ticks, calls, reads,
                   exitStatus, clock, countVars, spinEntered>>

\* Line 121.
Sleep ==
    /\ pc = "sleep"
    /\ clock' = clock + SleepMs
    /\ pc' = "loop"
    /\ UNCHANGED <<argVars, devDirectory, devAddress, ok, nodeVars, exitStatus,
                   countVars, spinEntered>>

\* ShouldSpin without the null check.
ShouldSpin_Always(n) == TRUE

\* Line 123: the condition under which rclcpp::spin is called.
ShouldSpin(n) == n # NULL

\* Lines 123-124: after the loop.
AfterLoop ==
    /\ pc = "after_loop"
    /\ pc' = IF ShouldSpin(node) THEN "spin" ELSE "shutdown"
    /\ spinEntered' = ShouldSpin(node)
    /\ UNCHANGED <<argVars, devDirectory, devAddress, ok, nodeVars, exitStatus, clock,
                   countVars>>

\* The outcomes a callback was given, with the calls it did not make blanked.
Outcomes(a, g, q, r) ==
    [accel |-> a,
     gyro |-> IF a = Fail THEN NotCalled ELSE g,
     quat |-> IF a = Fail \/ g = Fail THEN NotCalled ELSE q,
     reconnect |-> IF ReadsSucceed(a, g, q) THEN <<>> ELSE <<r>>]

\* The executor fires the wall timer: one timer_callback on node.
FireTimer ==
    /\ ticks < MaxTicks
    /\ \E a \in Vec3Samples \cup {Fail}, g \in Vec3Samples \cup {Fail},
          q \in QuatSamples \cup {Fail}, r \in BOOLEAN :
          LET res == timer_callback(node, ticks + 1, clock + TimerPeriodMs, a, g, q, r)
          IN  /\ node' = res.node
              /\ published' = published \o res.out
              /\ calls' = res.calls
              /\ reads' = Outcomes(a, g, q, r)
              /\ clock' = clock + TimerPeriodMs + res.slept
    /\ ticks' = ticks + 1

\* Line 124, rclcpp::spin(node). spin first builds a SingleThreadedExecutor
\* on the default context. On a context that is already shut down
\* (rclcpp::ok() false) the executor's guard conditions cannot be created and
\* its constructor throws rclcpp::exceptions::RCLError; main has no handler
\* around line 124, so std::terminate ends the process. On a live context the
\* executor fires the timers while rclcpp::ok() holds ("spinning"), and spin
\* returns once it does not.
Spin ==
    /\ pc \in {"spin", "spinning"}
    /\ IF pc = "spin"
       THEN IF ok
            THEN /\ pc' = "spinning"
                 /\ UNCHANGED <<exitStatus, nodeVars, clock>>
            ELSE /\ pc' = "done"
                 /\ exitStatus' = <<AbortStatus>>
                 /\ UNCHANGED <<nodeVars, clock>>
       ELSE IF ok
            THEN /\ FireTimer
                 /\ UNCHANGED <<pc, fresh, exitStatus>>
            ELSE /\ pc' = "shutdown"
                 /\ UNCHANGED <<exitStatus, nodeVars, clock>>
    /\ UNCHANGED <<argVars, devDirectory, devAddress, ok, countVars, spinEntered>>

\* Lines 127-128: rclcpp::shutdown() and return 0; node is destroyed.
Shutdown ==
    /\ pc = "shutdown"
    /\ ok' = FALSE
    /\ node' = NULL
    /\ exitStatus' = <<0>>
    /\ pc' = "done"
    /\ UNCHANGED <<argVars, devDirectory, devAddress, fresh, published, ticks, calls,
                   reads, clock, countVars, spinEntered>>

\* The host signals shutdown (SIGINT): rclcpp::ok() turns false for good.
Signal ==
    /\ pc # "done"
    /\ ok
    /\ ok' = FALSE
    /\ UNCHANGED <<pc, argVars, devDirectory, devAddress, nodeVars, exitStatus, clock,
                   countVars, spinEntered>>

Main == ParseArgs \/ LoopEnter \/ LoopExit \/ Construct \/ Assign \/ Sleep
            \/ AfterLoop \/ Spin \/ Shutdown

Next == Main \/ Signal

Spec == Init /\ [][Next]_vars

\* The process with a scheduler that keeps running main.
FairSpec == Spec /\ WF_vars(Main)

\* ------------------------------------------------------------- node alone
\* One MinimalPublisher, constructed, attached to an executor.
InitNode ==
    /\ pc = "executor"
    /\ argc = 3
    /\ argv1 \in DevDirectories
    /\ argv2 = <<>>
    /\ rosOverride \in FrameIdOverrides \cup {NoOverride}
    /\ devDirectory = argv1
    /\ devAddress \in {0, UINT8_MAX}
    /\ ok = TRUE
    /\ node = MinimalPublisher(1, devDirectory, devAddress, rosOverride)
    /\ fresh = NULL
    /\ published = <<>>
    /\ exitStatus = <<>>
    /\ clock = 0
    /\ iterations = 1
    /\ opens = 1
    /\ successes = 1
    /\ ticks = 0
    /\ calls = <<>>
    /\ reads = NULL
    /\ spinEntered = TRUE

\* The executor's loop while rclcpp::ok() holds.
Tick ==
    /\ pc = "executor"
    /\ ok
    /\ FireTimer
    /\ UNCHANGED <<pc, argVars, devDirectory, devAddress, ok, fresh, exitStatus,
                   countVars, spinEntered>>

NextNode == Tick \/ Signal

SpecNode == InitNode /\ [][NextNode]_vars

\* ----------------------------------------------------------------- claims
Count(seq, x) == Cardinality({i \in 1 .. Len(seq) : seq[i] = x})

\* The characters of an address string that remain after the white space, the
\* sign and the "0x" that a hexadecimal number may start with.
HexBody(str) ==
    LET s1 == SkipSpace(str)
    IN  SkipPrefix(IF s1 # <<>> /\ s1[1] = "-" THEN Drop(s1, 1) ELSE s1)

\* The whole address string is a hexadecimal number.
IsHexadecimal(str) ==
    /\ HexBody(str) # <<>>
    /\ \A i \in 1 .. Len(HexBody(str)) : HexBody(str)[i] \in HexDigits

\* The three startup-argument failure cases: an argument count other than two
\* positional arguments, an address that is not hexadecimal, an address above 255.
StartupFailure ==
    \/ argc # 3
    \/ ~IsHexadecimal(argv2)
    \/ ExceedsUint8(stoul(argv2))

\* Some read of the latest callback threw.
ReadFailed(o) == o # NULL /\ Fail \in {o.accel, o.gyro, o.quat}

\* All three reads of the latest callback returned.
ReadsReturned(o) == o # NULL /\ Fail \notin {o.accel, o.gyro, o.quat}

\* C1: each bootstrap iteration makes exactly one open attempt, and once a
\* construction has succeeded no further open attempt is made.
C1_NoOpenAfterSuccess ==
    /\ [](opens \in {iterations - 1, iterations})
    /\ [][successes > 0 => opens' = opens]_vars

\* C2: the supervisor enters the event loop while the continue-running
\* condition is still true (so that the timer can fire and publish).
C2_SpinWhileRunning == [][(pc = "after_loop" /\ pc' = "spin") => ok']_vars

\* C3: at most one MinimalPublisher object is alive in every state.
C3_AtMostOneNode == Cardinality(LiveNodes) <= 1

\* C4: a callback whose three reads succeed publishes exactly one message,
\* carrying the values of those reads and the frame id resolved at construction.
C4_PublishesReads ==
    [][(ticks' = ticks + 1 /\ ReadsReturned(reads')) =>
          /\ Len(published') = Len(published) + 1
          /\ SubSeq(published', 1, Len(published)) = published
          /\ LET m == published'[Len(published')].msg
             IN  /\ m.linear_acceleration = reads'.accel
                 /\ m.angular_velocity = reads'.gyro
                 /\ m.orientation = reads'.quat
                 /\ m.frame_id = declare_parameter(rosOverride, DefaultFrameId)]_vars

C4_Witness ==
    /\ ticks >= 2
    /\ ReadsReturned(reads)
    /\ Len(published) = 2
    /\ published[2].msg.linear_acceleration # published[2].msg.angular_velocity
    /\ published[2].msg.frame_id = "base_link"

\* C5: a callback in which a read throws publishes nothing and calls
\* reconnect() exactly once, however many failing callbacks came before.
C5_FailingTickReconnectsOnce ==
    [][(ticks' = ticks + 1 /\ ReadFailed(reads')) =>
          /\ published' = published
          /\ Count(calls', "reconnect") = 1
          /\ Count(calls', "publish") = 0]_vars

C5_Witness ==
    /\ ticks >= 3
    /\ published = <<>>
    /\ ReadFailed(reads)
    /\ reads.reconnect = <<FALSE>>
    /\ Count(calls, "reconnect") = 1

\* C6: the three measurements of every published message were read in the
\* tick that published it.
C6_NoMixedSamples ==
    \A i \in 1 .. Len(published) :
        /\ published[i].src.accel = published[i].tick
        /\ published[i].src.gyro = published[i].tick
        /\ published[i].src.quat = published[i].tick

C6_Witness ==
    /\ Len(published) = 2
    /\ published[1].tick = 1
    /\ published[2].tick = 3
    /\ published[1].msg.linear_acceleration # published[2].msg.linear_acceleration

\* The covariance array the claim describes: the constant at 0, 4 and 8.
DiagonalCovariance(c) == [i \in Indices |-> IF i \in {0, 4, 8} THEN c ELSE 0]

\* C7: in every constructed node each covariance array holds its constant at
\* the indices 0, 4 and 8 and zero at the other indices.
C7_DiagonalCovariance ==
    \A n \in LiveNodes :
        /\ n.imuMsg_.linear_acceleration_covariance = DiagonalCovariance(AccelCovarianceE8)
        /\ n.imuMsg_.angular_velocity_covariance = DiagonalCovariance(GyroCovarianceE8)
        /\ n.imuMsg_.orientation_covariance = DiagonalCovariance(QuatCovarianceE8)

\* C8: with a startup-argument failure the process never makes an open attempt
\* nor constructs a node, and when it has ended its exit status is non-zero.
C8_BadArgumentsExit ==
    StartupFailure =>
        /\ opens = 0
        /\ successes = 0
        /\ pc \notin {"spin", "spinning", "shutdown"}
        /\ pc = "done" => (exitStatus # <<>> /\ exitStatus # <<0>>)

\* C9: with well-formed arguments the process ends only after the shutdown
\* condition was signalled, and then with status zero, whatever opens failed:
\* a non-zero exit status occurs only with a startup-argument failure.
C9_OnlyBadArgumentsFail ==
    ~StartupFailure =>
        /\ pc \in {"after_loop", "shutdown"} => ~ok
        /\ pc = "done" <=> exitStatus = <<0>>
        /\ pc # "done" => exitStatus = <<>>

\* C10: when the loop condition is found false and no construction has
\* succeeded, the process terminates without having entered the event loop,
\* run a callback or published a message.
C10_ShutdownWithoutNode ==
    (pc = "loop" /\ ~ok /\ successes = 0)
        ~> (pc = "done" /\ ~spinEntered /\ ticks = 0 /\ published = <<>>)

C10_Witness ==
    /\ pc = "done"
    /\ successes = 0
    /\ opens >= 1
    /\ ~spinEntered
    /\ exitStatus = <<0>>


\* C11 as stated: a tick that follows a failed reconnect() publishes nothing
\* and calls reconnect() again (the cycle stays in Recovering until a
\* reconnect() returns true).
C11_RecoveringUntilReconnect ==
    [][(ticks' = ticks + 1 /\ ReadFailed(reads) /\ reads.reconnect = <<FALSE>>) =>
          /\ published' = published
          /\ Count(calls', "reconnect") = 1]_vars

\* C11 amended: the tick after a failing tick publishes one message and does
\* not call reconnect() when its own three reads succeed, and publishes
\* nothing and calls reconnect() once when one of them throws, whatever the
\* earlier reconnect() returned.
C11_ResumesWhenReadsSucceed ==
    [][(ticks' = ticks + 1 /\ ReadFailed(reads)) =>
          IF ReadsReturned(reads')
          THEN /\ Len(published') = Len(published) + 1
               /\ Count(calls', "reconnect") = 0
          ELSE /\ published' = published
               /\ Count(calls', "reconnect") = 1]_vars

\* A first tick that failed and whose reconnect() returned false (it slept),
\* then a second tick that published.
C11_Witness ==
    /\ ticks = 2
    /\ Len(published) = 1
    /\ published[1].tick = 2
    /\ clock = 2 * TimerPeriodMs + SleepMs


\* C12: a construction whose open fails creates no object (no timer, no
\* publisher), leaves main's node and every other input of the next attempt
\* as they were and goes on to the delay; and whatever failed before, an
\* attempt whose open succeeds builds the same object.
C12_FailedAttemptLeavesNoTrace ==
    /\ [][(opens' = opens + 1 /\ successes' = successes) =>
             /\ node' = node
             /\ fresh' = fresh
             /\ published' = published
             /\ <<devDirectory, devAddress, rosOverride, ok, exitStatus>>'
                    = <<devDirectory, devAddress, rosOverride, ok, exitStatus>>
             /\ pc' = "sleep"]_vars
    /\ [][(opens' = opens + 1 /\ successes' = successes + 1) =>
             /\ fresh' # NULL
             /\ fresh'.imu_ = [devDirectory |-> argv1, devAddress |-> ToUint8(stoul(argv2))]
             /\ fresh'.timer_ = TimerPeriodMs
             /\ fresh'.src = [accel |-> 0, gyro |-> 0, quat |-> 0]]_vars

\* Two failed attempts, then one that succeeded.
C12_Witness ==
    /\ opens = 3
    /\ successes = 1
    /\ pc = "assign"
    /\ fresh # NULL
    /\ node = NULL


\* The three covariance arrays of a node's message buffer.
Covariances(n) ==
    <<n.imuMsg_.linear_acceleration_covariance,
      n.imuMsg_.angular_velocity_covariance,
      n.imuMsg_.orientation_covariance>>

\* C13: the covariance arrays of the buffer are those the constructor's loop
\* wrote, and no timer callback, successful or failing, changes them.
C13_CallbackKeepsCovariance ==
    /\ [](node # NULL =>
            Covariances(node) = <<CovarianceInit(accelCovariance),
                                  CovarianceInit(gyroCovariance),
                                  CovarianceInit(quatCovariance)>>)
    /\ [][ticks' = ticks + 1 => Covariances(node') = Covariances(node)]_vars

\* A successful and then a failing callback have run; the message published
\* carries the constructor's covariances.
C13_Witness ==
    /\ ticks >= 2
    /\ Len(published) >= 1
    /\ ReadFailed(reads)
    /\ published[1].msg.orientation_covariance = node.imuMsg_.orientation_covariance
    /\ node.imuMsg_.orientation_covariance[0] = QuatCovarianceE8


\* The three queries, in the order the claim gives.
ReadOrder == <<"getAccelMsq", "getGyroRps", "getQuaternion">>

\* How many queries the latest callback reached: up to the first that threw.
ReadsReached(o) == IF o.accel = Fail THEN 1 ELSE IF o.gyro = Fail THEN 2 ELSE 3

\* C14: the calls of a callback start with the queries in the order
\* acceleration, angular velocity, orientation, up to the first that throws;
\* no query follows; a throw is followed at once by reconnect(); publish comes
\* only as the fourth call, after three queries that returned.
C14_ReadOrder ==
    reads # NULL =>
        /\ Len(calls) > ReadsReached(reads)
        /\ SubSeq(calls, 1, ReadsReached(reads)) = SubSeq(ReadOrder, 1, ReadsReached(reads))
        /\ \A i \in (ReadsReached(reads) + 1) .. Len(calls) :
               calls[i] \notin {ReadOrder[j] : j \in 1 .. 3}
        /\ ReadFailed(reads) => calls[ReadsReached(reads) + 1] = "reconnect"
        /\ \A i \in 1 .. Len(calls) :
               calls[i] = "publish" => (i = 4 /\ ReadsReturned(reads))

\* The angular velocity query threw: two queries, then reconnect().
C14_Witness ==
    /\ reads # NULL
    /\ reads.accel # Fail
    /\ reads.gyro = Fail
    /\ Len(calls) >= 3
    /\ calls[3] = "reconnect"
    /\ Count(calls, "getQuaternion") = 0


\* C15: a callback waits the cooldown once, as its last call, when its
\* reconnect() returned false, and does not wait when reconnect() returned true
\* or when its reads succeeded.
C15_CooldownOnlyAfterFailedReconnect ==
    [][ticks' = ticks + 1 =>
          IF reads'.reconnect = <<FALSE>>
          THEN /\ Count(calls', "sleep_for") = 1
               /\ calls'[Len(calls')] = "sleep_for"
               /\ calls'[Len(calls') - 1] = "reconnect"
               /\ clock' = clock + TimerPeriodMs + SleepMs
          ELSE /\ Count(calls', "sleep_for") = 0
               /\ clock' = clock + TimerPeriodMs]_vars

\* A tick that waited, then a failing tick whose reconnect() returned true
\* and that did not wait.
C15_Witness ==
    /\ ticks = 2
    /\ reads.reconnect = <<TRUE>>
    /\ Count(calls, "sleep_for") = 0
    /\ clock = 2 * TimerPeriodMs + SleepMs
    /\ published = <<>>


\* C16: a failed construction leaves main in the loop, on its way to the
\* delay; the k-th open attempt is made exactly k - 1 delays after the start
\* (consecutive attempts are one delay apart); and while rclcpp::ok() holds the
\* loop condition only ever leads to the next attempt, however many failed.
C16_OneDelayBetweenAttempts ==
    /\ [](pc = "construct" => clock = opens * SleepMs)
    /\ [](pc \in {"assign", "sleep"} => clock = (opens - 1) * SleepMs)
    /\ [][(opens' = opens + 1 /\ successes' = successes) =>
              (pc' = "sleep" /\ exitStatus' = <<>>)]_vars
    /\ [][(pc = "loop" /\ ok /\ pc' # pc) => pc' = "construct"]_vars

\* Two attempts have failed and the third is about to be made.
C16_Witness ==
    /\ pc = "construct"
    /\ ok
    /\ opens = 2
    /\ successes = 0
    /\ clock = 2 * SleepMs


\* The callback just run published one message and did not call reconnect().
PublishedOnly ==
    /\ Len(published') = Len(published) + 1
    /\ Count(calls', "publish") = 1
    /\ Count(calls', "reconnect") = 0

\* The callback just run called reconnect() once and published nothing.
ReconnectedOnly ==
    /\ published' = published
    /\ Count(calls', "publish") = 0
    /\ Count(calls', "reconnect") = 1

\* C17: every callback does exactly one of the two: it publishes one message
\* without calling reconnect(), or calls reconnect() once without publishing.
C17_PublishXorReconnect ==
    [][ticks' = ticks + 1 => (PublishedOnly /\ ~ReconnectedOnly)
                                 \/ (ReconnectedOnly /\ ~PublishedOnly)]_vars

\* One callback of each kind has run.
C17_Witness ==
    /\ ticks = 2
    /\ Len(published) = 1
    /\ published[1].tick = 1
    /\ Count(calls, "reconnect") = 1
    /\ Count(calls, "publish") = 0


\* The three measurement fields of a message.
Samples(m) == <<m.linear_acceleration, m.angular_velocity, m.orientation>>

\* C18: a callback in which a read throws changes, of the node, only the
\* stamp and the frame id of the message buffer: the measurement fields stay
\* those of the last message published (the last successful callback).
C18_FailingTickKeepsSamples ==
    [][(ticks' = ticks + 1 /\ ReadFailed(reads')) =>
          /\ node' = [node EXCEPT !.imuMsg_.stamp = clock + TimerPeriodMs,
                                  !.imuMsg_.frame_id = node.frameId_]
          /\ Samples(node'.imuMsg_) = Samples(node.imuMsg_)
          /\ published # <<>> =>
                Samples(node'.imuMsg_) = Samples(published[Len(published)].msg)]_vars

\* A successful callback, then a failing one: the buffer holds the published
\* measurement under a later stamp.
C18_Witness ==
    /\ ticks = 2
    /\ ReadFailed(reads)
    /\ Len(published) = 1
    /\ Samples(node.imuMsg_) = Samples(published[1].msg)
    /\ Samples(node.imuMsg_) # Samples(DefaultImu)
    /\ node.imuMsg_.stamp > published[1].msg.stamp


\* C19: once the loop has ended, node is null exactly when no construction
\* succeeded and is otherwise the object of the latest successful one; a
\* failed attempt leaves node as it was; rclcpp::spin is entered only with a
\* node.
C19_NodeAtLoopExit ==
    /\ [](pc \in {"after_loop", "spin", "spinning", "shutdown"} =>
            /\ node = NULL <=> successes = 0
            /\ node # NULL => node.id = successes
            /\ fresh = NULL)
    /\ [](spinEntered => successes > 0)
    /\ [](pc \in {"spin", "spinning"} => node # NULL)
    /\ [][(opens' = opens + 1 /\ successes' = successes) => node' = node]_vars

\* The loop ended after a success, a second success and a failure: node is
\* the second object and spin was entered with it.
C19_Witness ==
    /\ pc = "spin"
    /\ opens = 3
    /\ successes = 2
    /\ node # NULL
    /\ node.id = 2

====
